---- MODULE Spec2Model ----
(***************************************************************************)
(* The pane grid widget of iced_native (native/src/widget/pane_grid.rs):   *)
(* the gesture controller (on_event, click_pane, trigger_resize,           *)
(* hovered_split) over the layout tree, the region solver and the          *)
(* interaction state kept by pane_grid::state::Internal.                   *)
(*                                                                         *)
(* Coordinates, lengths and ratios are exact rationals <<n, d>> with d > 0 *)
(* and gcd(n, d) = 1, so that ratio * extent, spacing / 2 and the          *)
(* cursor-to-ratio division of trigger_resize are computed, not assumed.   *)
(***************************************************************************)
EXTENDS Integers, Sequences, FiniteSets, TLC

(***************************************************************************)
(* Bounds of the model.                                                    *)
(***************************************************************************)
\* Largest number of panes of a layout the widget is built over.
MaxPanes == 3

(***************************************************************************)
(* Rational arithmetic.                                                    *)
(***************************************************************************)
Abs(n) == IF n < 0 THEN -n ELSE n

RECURSIVE GCD(_, _)
GCD(a, b) == IF b = 0 THEN a ELSE GCD(b, a % b)

\* The normal form of n / d, d > 0.
Q(n, d) == LET g == GCD(Abs(n), d) IN <<n \div g, d \div g>>

I(n) == <<n, 1>>

QAdd(a, b) == Q(a[1] * b[2] + b[1] * a[2], a[2] * b[2])

QSub(a, b) == Q(a[1] * b[2] - b[1] * a[2], a[2] * b[2])

QMul(a, b) == Q(a[1] * b[1], a[2] * b[2])

\* a / b for b > 0.
QDiv(a, b) == Q(a[1] * b[2], a[2] * b[1])

QLe(a, b) == a[1] * b[2] <= b[1] * a[2]

QLt(a, b) == a[1] * b[2] < b[1] * a[2]

QMax(a, b) == IF QLe(a, b) THEN b ELSE a

QMin(a, b) == IF QLe(a, b) THEN a ELSE b

Half(a) == Q(a[1], 2 * a[2])

(***************************************************************************)
(* Geometry: Point, Vector, Rectangle.                                     *)
(***************************************************************************)
Point(x, y) == [x |-> x, y |-> y]

Rectangle(x, y, width, height) ==
    [x |-> x, y |-> y, width |-> width, height |-> height]

\* Rectangle::contains: both edges belong to the rectangle, so that two
\* regions sharing an edge tie on it.
contains(r, p) ==
    /\ QLe(r.x, p.x)
    /\ QLe(p.x, QAdd(r.x, r.width))
    /\ QLe(r.y, p.y)
    /\ QLe(p.y, QAdd(r.y, r.height))

\* rectangle + Vector(dx, dy)
translate(r, dx, dy) ==
    Rectangle(QAdd(r.x, dx), QAdd(r.y, dy), r.width, r.height)

(***************************************************************************)
(* Axis.                                                                   *)
(***************************************************************************)
Axes == {"Horizontal", "Vertical"}

\* Axis::split: the two sub-rectangles of `rectangle` on either side of the
\* line at `ratio` of its extent along the axis, each reduced by half of
\* the spacing on the side adjacent to the line.
axis_split(axis, rectangle, ratio, spacing) ==
    IF axis = "Horizontal"
    THEN LET line == QMul(rectangle.height, ratio)
             height_top == QSub(line, Half(spacing))
             height_bottom == QSub(QSub(rectangle.height, height_top), spacing)
         IN  << Rectangle(rectangle.x, rectangle.y, rectangle.width, height_top),
                Rectangle(rectangle.x,
                          QAdd(QAdd(rectangle.y, height_top), spacing),
                          rectangle.width, height_bottom) >>
    ELSE LET line == QMul(rectangle.width, ratio)
             width_left == QSub(line, Half(spacing))
             width_right == QSub(QSub(rectangle.width, width_left), spacing)
         IN  << Rectangle(rectangle.x, rectangle.y, width_left, rectangle.height),
                Rectangle(QAdd(QAdd(rectangle.x, width_left), spacing),
                          rectangle.y, width_right, rectangle.height) >>

\* Axis::split_line_bounds: the band of length `spacing` along the axis,
\* centered on the split line of `rectangle` at `ratio`.
split_line_bounds(axis, rectangle, ratio, spacing) ==
    IF axis = "Horizontal"
    THEN Rectangle(rectangle.x,
                   QSub(QAdd(rectangle.y, QMul(rectangle.height, ratio)),
                        Half(spacing)),
                   rectangle.width, spacing)
    ELSE Rectangle(QSub(QAdd(rectangle.x, QMul(rectangle.width, ratio)),
                        Half(spacing)),
                   rectangle.y, spacing, rectangle.height)

(***************************************************************************)
(* Node: the layout tree.                                                  *)
(***************************************************************************)
Pane(id) == [kind |-> "Pane", id |-> id]

Split(id, axis, ratio, first, second) ==
    [kind |-> "Split", id |-> id, axis |-> axis, ratio |-> ratio,
     first |-> first, second |-> second]

\* The panes of a tree, first child before second child.
RECURSIVE panes_of(_)
panes_of(node) ==
    IF node.kind = "Pane" THEN <<node.id>>
    ELSE panes_of(node.first) \o panes_of(node.second)

\* Node::pane_regions: the rectangle of every pane, in traversal order.
RECURSIVE compute_regions(_, _, _)
compute_regions(node, spacing, current) ==
    IF node.kind = "Pane" THEN << [pane |-> node.id, region |-> current] >>
    ELSE LET halves == axis_split(node.axis, current, node.ratio, spacing)
         IN  compute_regions(node.first, spacing, halves[1])
                 \o compute_regions(node.second, spacing, halves[2])

\* Node::split_regions: (axis, rectangle, ratio) of every split, a split
\* before the splits of its first child, those before its second child's.
RECURSIVE compute_splits(_, _, _)
compute_splits(node, spacing, current) ==
    IF node.kind = "Pane" THEN << >>
    ELSE LET halves == axis_split(node.axis, current, node.ratio, spacing)
         IN  << [split |-> node.id, axis |-> node.axis,
                 region |-> current, ratio |-> node.ratio] >>
                 \o compute_splits(node.first, spacing, halves[1])
                 \o compute_splits(node.second, spacing, halves[2])

(***************************************************************************)
(* State.                                                                  *)
(***************************************************************************)
VARIABLES
    layout,     \* state::Internal: the layout tree (a Node)
    action,     \* state::Internal: Idle, PanePicked or SplitPicked
    spacing,    \* PaneGrid::spacing (u16)
    on_click,   \* PaneGrid::on_click is Some
    on_drag,    \* PaneGrid::on_drag is Some
    on_resize,  \* PaneGrid::on_resize: [some, leeway]
    bounds,     \* layout.bounds() of the pane grid
    children,   \* layout.children(): the node Widget::layout built, per element
    event,      \* the last event handled: [kind, cursor, interactive]
    published,  \* the domain events the last on_event published, in order
    own_status, \* event_status before the contents' statuses are merged in
    status,     \* the event::Status the last on_event returned
    forwarded,  \* the (pane, is_picked) of each content.on_event call of it
    before,     \* history: the layout and action the last on_event started from
    panes,      \* state::Internal: the state of each pane
    last_id,    \* state::Internal: the id counter
    called,     \* the last operation of State called, and what it returned
    dragging    \* history: the pane of the last drag event published if that
                \* was a Picked, -1 otherwise

vars == << layout, action, spacing, on_click, on_drag, on_resize, bounds,
           children, event, published, own_status, status, forwarded, before,
           panes, last_id, called, dragging >>

config == << spacing, on_click, on_drag, on_resize, bounds >>

store == << panes, last_id, called >>

\* Side of the square the pane grid is laid out in.
GridSize == 100

\* The spacing of a pane grid that has one.
Spacing == 4

\* The leeway given to on_resize.
Leeway == 6

\* Height of the strip at the top of a pane its content can be picked at.
PickHeight == 20

\* Where the pane grid sits in the window.
GridOrigin == Point(I(10), I(20))

\* Cursor positions tried, relative to the pane grid's top-left corner.
SamplePoints ==
    { <<-5, 50>>,
      <<25, 10>>, <<75, 10>>, <<50, 10>>, <<25, 30>>, <<25, 80>>, <<75, 80>>,
      <<44, 50>>, <<45, 50>>, <<49, 50>>, <<50, 50>>, <<55, 50>> }

Cursors ==
    { Point(QAdd(GridOrigin.x, I(p[1])), QAdd(GridOrigin.y, I(p[2])))
        : p \in SamplePoints }

Idle == [kind |-> "Idle"]

PanePicked(pane, origin) == [kind |-> "PanePicked", pane |-> pane, origin |-> origin]

SplitPicked(split, axis) == [kind |-> "SplitPicked", split |-> split, axis |-> axis]

NoResize == [some |-> FALSE, leeway |-> 0]

(***************************************************************************)
(* The layouts the widget is built over: State::new, then State::split of  *)
(* the newest pane with alternating axes, the new pane first.              *)
(***************************************************************************)
\* split_node putting the original pane first.
RECURSIVE split_node_original_first(_, _, _, _, _)
split_node_original_first(node, pane, split, axis, new_pane) ==
    IF node.kind = "Pane"
    THEN IF node.id = pane
         THEN Split(split, axis, <<1, 2>>, node, Pane(new_pane))
         ELSE node
    ELSE [node EXCEPT
            !.first = split_node_original_first(node.first, pane, split, axis, new_pane),
            !.second = split_node_original_first(node.second, pane, split, axis, new_pane)]

RECURSIVE split_node(_, _, _, _, _)
split_node(node, pane, split, axis, new_pane) ==
    IF node.kind = "Pane"
    THEN IF node.id = pane
         THEN Split(split, axis, <<1, 2>>, Pane(new_pane), node)
         ELSE node
    ELSE [node EXCEPT !.first = split_node(node.first, pane, split, axis, new_pane),
                      !.second = split_node(node.second, pane, split, axis, new_pane)]

RECURSIVE resize_node(_, _, _)
resize_node(node, split, ratio) ==
    IF node.kind = "Pane" THEN node
    ELSE IF node.id = split THEN [node EXCEPT !.ratio = ratio]
    ELSE [node EXCEPT !.first = resize_node(node.first, split, ratio),
                      !.second = resize_node(node.second, split, ratio)]

\* Node::first_pane
RECURSIVE first_pane(_)
first_pane(node) ==
    IF node.kind = "Pane" THEN node.id ELSE first_pane(node.first)

\* Node::remove: the parent split of the pane gives way to the sibling.
RECURSIVE remove_node(_, _)
remove_node(node, pane) ==
    IF node.kind = "Pane" THEN node
    ELSE IF node.first = Pane(pane) THEN node.second
    ELSE IF node.second = Pane(pane) THEN node.first
    ELSE [node EXCEPT !.first = remove_node(node.first, pane),
                      !.second = remove_node(node.second, pane)]

\* The sibling subtree of a pane that has one.
RECURSIVE sibling_of(_, _)
sibling_of(node, pane) ==
    IF node.first = Pane(pane) THEN node.second
    ELSE IF node.second = Pane(pane) THEN node.first
    ELSE IF node.first.kind = "Split" /\ pane \in { panes_of(node.first)[i] : i \in DOMAIN panes_of(node.first) }
         THEN sibling_of(node.first, pane)
    ELSE sibling_of(node.second, pane)

\* The two leaves exchanged.
RECURSIVE swap_node(_, _, _)
swap_node(node, a, b) ==
    IF node.kind = "Pane"
    THEN IF node.id = a THEN Pane(b) ELSE IF node.id = b THEN Pane(a) ELSE node
    ELSE [node EXCEPT !.first = swap_node(node.first, a, b),
                      !.second = swap_node(node.second, a, b)]

\* The ids of the splits of a tree, in traversal order.
RECURSIVE splits_of(_)
splits_of(node) ==
    IF node.kind = "Pane" THEN << >>
    ELSE <<node.id>> \o splits_of(node.first) \o splits_of(node.second)

(***************************************************************************)
(* State: the layout, the state of each pane and the id counter, as a      *)
(* record [layout, panes, last_id]; every operation gives the state it     *)
(* leaves and what it returns (some = FALSE for None).                     *)
(***************************************************************************)
None == [some |-> FALSE]

\* State::new
state_new(first_pane_state) ==
    [state |-> [layout |-> Pane(0), panes |-> (0 :> first_pane_state), last_id |-> 0],
     pane |-> 0]

\* State::split taking the id of the new pane without advancing the counter.
state_split_reusing_id(S, axis, pane, new_pane_state) ==
    IF pane \notin DOMAIN S.panes THEN [state |-> S, returned |-> None]
    ELSE LET new_pane == S.last_id
             new_split == S.last_id + 1
         IN  [state |-> [layout |-> split_node(S.layout, pane, new_split, axis, new_pane),
                         panes |-> (new_pane :> new_pane_state) @@ S.panes,
                         last_id |-> S.last_id + 1],
              returned |-> [some |-> TRUE, pane |-> new_pane]]

\* State::split
state_split(S, axis, pane, new_pane_state) ==
    IF pane \notin DOMAIN S.panes THEN [state |-> S, returned |-> None]
    ELSE LET new_pane == S.last_id + 1
             new_split == S.last_id + 2
         IN  [state |-> [layout |-> split_node(S.layout, pane, new_split, axis, new_pane),
                         panes |-> (new_pane :> new_pane_state) @@ S.panes,
                         last_id |-> S.last_id + 2],
              returned |-> [some |-> TRUE, pane |-> new_pane]]

\* State::close forgetting the state of the pane it refuses to close.
state_close_forgetting(S, pane) ==
    IF pane \notin DOMAIN S.panes THEN [state |-> S, returned |-> None]
    ELSE IF S.layout.kind = "Pane"
    THEN [state |-> [S EXCEPT !.panes = [ p \in {} |-> 0 ]], returned |-> None]
    ELSE [state |-> [S EXCEPT !.layout = remove_node(S.layout, pane),
                              !.panes = [ p \in DOMAIN S.panes \ {pane} |-> S.panes[p] ]],
          returned |-> [some |-> TRUE, state |-> S.panes[pane],
                        sibling |-> first_pane(sibling_of(S.layout, pane))]]

\* State::close removing the pane next to the one it is given.
state_close_sibling(S, pane) ==
    IF pane \notin DOMAIN S.panes \/ S.layout.kind = "Pane"
    THEN [state |-> S, returned |-> None]
    ELSE LET sibling == first_pane(sibling_of(S.layout, pane))
         IN  [state |-> [S EXCEPT !.layout = remove_node(S.layout, sibling),
                                  !.panes = [ p \in DOMAIN S.panes \ {sibling} |-> S.panes[p] ]],
              returned |-> [some |-> TRUE, state |-> S.panes[sibling], sibling |-> pane]]

\* State::close
state_close(S, pane) ==
    IF pane \notin DOMAIN S.panes \/ S.layout.kind = "Pane"
    THEN [state |-> S, returned |-> None]
    ELSE [state |-> [S EXCEPT !.layout = remove_node(S.layout, pane),
                              !.panes = [ p \in DOMAIN S.panes \ {pane} |-> S.panes[p] ]],
          returned |-> [some |-> TRUE, state |-> S.panes[pane],
                        sibling |-> first_pane(sibling_of(S.layout, pane))]]

\* State::swap not looking for the panes it is given.
state_swap_unchecked(S, a, b) ==
    [state |-> [S EXCEPT !.layout = swap_node(S.layout, a, b)],
     returned |-> [some |-> TRUE]]

\* State::swap
state_swap(S, a, b) ==
    IF a \notin DOMAIN S.panes \/ b \notin DOMAIN S.panes
    THEN [state |-> S, returned |-> None]
    ELSE [state |-> [S EXCEPT !.layout = swap_node(S.layout, a, b)],
          returned |-> [some |-> TRUE]]

\* State::resize: the ratio is stored as given.
state_resize(S, split, ratio) ==
    [state |-> [S EXCEPT !.layout = resize_node(S.layout, split, ratio)],
     returned |-> [some |-> TRUE]]

\* State::drag_and_drop_commit: the dragged pane is removed, then put back
\* as the first child of a new split that takes the place of the target.
drag_and_drop_commit(S, dragged, target, axis) ==
    IF dragged = target \/ dragged \notin DOMAIN S.panes \/ target \notin DOMAIN S.panes
    THEN [state |-> S, returned |-> None]
    ELSE LET new_split == S.last_id + 1
         IN  [state |-> [S EXCEPT
                           !.layout = split_node(remove_node(S.layout, dragged),
                                                 target, new_split, axis, dragged),
                           !.last_id = S.last_id + 1],
              returned |-> [some |-> TRUE]]

\* The state after `count` panes were created: State::new, then State::split
\* of the newest pane with alternating axes.
RECURSIVE Chained(_)
Chained(count) ==
    IF count = 1 THEN state_new("first").state
    ELSE LET S == Chained(count - 1)
         IN  state_split(S, IF count % 2 = 0 THEN "Vertical" ELSE "Horizontal",
                         first_pane(S.layout), "next").state

Chain(n) == Chained(n).layout

InitStates ==
    { Chained(n) : n \in 1..MaxPanes }
        \cup { state_resize(state_split(state_new("first").state,
                                        "Horizontal", 0, "next").state,
                            2, <<3, 10>>).state }

InitLayouts == { S.layout : S \in InitStates }

(***************************************************************************)
(* PaneGrid: the elements, their layout, and the private helpers.          *)
(***************************************************************************)
Min(S) == CHOOSE i \in S : \A j \in S : i <= j

\* PaneGrid::new: one element per pane of the state, in traversal order.
elements == panes_of(layout)

\* state.split_regions(spacing, size)
split_regions(size) ==
    compute_splits(layout, I(spacing), Rectangle(I(0), I(0), size.width, size.height))

\* regions.get(pane)
region_of(regions, pane) ==
    LET i == CHOOSE j \in DOMAIN regions : regions[j].pane = pane
    IN  regions[i].region

\* The children of Widget::layout, one per region in the order of the
\* regions, whatever the order of the elements.
layout_nodes_by_region(elems, regions, bounds_) ==
    [ i \in DOMAIN regions |->
        [ pane |-> regions[i].pane,
          bounds |-> translate(regions[i].region, bounds_.x, bounds_.y) ] ]

\* The children of Widget::layout: the elements in their order, each one
\* that has a region giving a node moved to that region (filter_map); the
\* node is tagged with the pane it was built for, and its bounds are
\* absolute, those of the pane grid included.
RECURSIVE layout_nodes(_, _, _)
layout_nodes(elems, regions, bounds_) ==
    IF elems = << >> THEN << >>
    ELSE LET found == { j \in DOMAIN regions : regions[j].pane = Head(elems) }
         IN  (IF found = {} THEN << >>
              ELSE << [ pane |-> Head(elems),
                        bounds |-> translate(regions[Min(found)].region,
                                             bounds_.x, bounds_.y) ] >>)
                 \o layout_nodes(Tail(elems), regions, bounds_)

\* Widget::layout over the elements of a tree.
widget_layout(node, spacing_, bounds_) ==
    layout_nodes(panes_of(node),
                 compute_regions(node, I(spacing_),
                                 Rectangle(I(0), I(0), bounds_.width, bounds_.height)),
                 bounds_)

\* The first (element, child layout) pair whose bounds contain the cursor,
\* 0 when there is none: elements.iter().zip(layout.children()).filter(..).next()
first_region_at(nodes, cursor_position) ==
    LET hits == { i \in DOMAIN nodes : contains(nodes[i].bounds, cursor_position) }
    IN  IF hits = {} THEN 0 ELSE Min(hits)

\* Content::can_be_picked_at: the cursor is over the pick area of the
\* content, the strip of PickHeight at the top of its layout.
can_be_picked_at(child_bounds, cursor_position) ==
    contains(Rectangle(child_bounds.x, child_bounds.y, child_bounds.width,
                       QMin(I(PickHeight), child_bounds.height)),
             cursor_position)

\* hovered_split taking the last split whose line bounds contain the cursor.
hovered_split_last(splits, spacing_, cursor_position) ==
    LET hits == { i \in DOMAIN splits :
                    contains(split_line_bounds(splits[i].axis, splits[i].region,
                                               splits[i].ratio, spacing_),
                             cursor_position) }
    IN  IF hits = {} THEN [some |-> FALSE]
        ELSE LET s == splits[CHOOSE i \in hits : \A j \in hits : j <= i]
             IN  [some |-> TRUE, split |-> s.split, axis |-> s.axis,
                  bounds |-> split_line_bounds(s.axis, s.region, s.ratio, spacing_)]

\* hovered_split: the first split whose line bounds, `spacing` long,
\* contain the cursor.
hovered_split(splits, spacing_, cursor_position) ==
    LET hits == { i \in DOMAIN splits :
                    contains(split_line_bounds(splits[i].axis, splits[i].region,
                                               splits[i].ratio, spacing_),
                             cursor_position) }
    IN  IF hits = {} THEN [some |-> FALSE]
        ELSE LET s == splits[Min(hits)]
             IN  [some |-> TRUE, split |-> s.split, axis |-> s.axis,
                  bounds |-> split_line_bounds(s.axis, s.region, s.ratio, spacing_)]

\* grab_length without the spacing.
grab_length_leeway_only(leeway) == I(leeway)

\* The length handed to hovered_split: f32::from(self.spacing + leeway)
grab_length(leeway) == I(spacing + leeway)

\* state.pick_pane / state.pick_split / state.idle
pick_pane(pane, origin) == PanePicked(pane, origin)

pick_split(split, axis) == SplitPicked(split, axis)

\* click_pane picking the pane wherever the content is pressed.
click_pane_anywhere(nodes, cursor_position) ==
    LET i == first_region_at(nodes, cursor_position)
    IN  IF i = 0 THEN [action |-> action, published |-> << >>]
        ELSE LET pane == nodes[i].pane
                 clicked == IF on_click
                            THEN << [type |-> "PaneClicked", pane |-> pane] >>
                            ELSE << >>
                 origin == Point(QSub(cursor_position.x, nodes[i].bounds.x),
                                 QSub(cursor_position.y, nodes[i].bounds.y))
             IN  IF on_drag
                 THEN [action |-> pick_pane(pane, origin),
                       published |-> clicked \o << [type |-> "Picked", pane |-> pane] >>]
                 ELSE [action |-> action, published |-> clicked]

\* click_pane: what it publishes and the action it leaves.
click_pane(nodes, cursor_position) ==
    LET i == first_region_at(nodes, cursor_position)
    IN  IF i = 0 THEN [action |-> action, published |-> << >>]
        ELSE LET pane == nodes[i].pane
                 clicked == IF on_click
                            THEN << [type |-> "PaneClicked", pane |-> pane] >>
                            ELSE << >>
                 origin == Point(QSub(cursor_position.x, nodes[i].bounds.x),
                                 QSub(cursor_position.y, nodes[i].bounds.y))
             IN  IF on_drag /\ can_be_picked_at(nodes[i].bounds, cursor_position)
                 THEN [action |-> pick_pane(pane, origin),
                       published |-> clicked \o << [type |-> "Picked", pane |-> pane] >>]
                 ELSE [action |-> action, published |-> clicked]

\* clamp_ratio without the clamp.
clamp_ratio_unclamped(position, extent) == QDiv(position, extent)

\* The ratio trigger_resize computes: position / extent, clamped.
clamp_ratio(position, extent) ==
    QMin(QMax(QDiv(position, extent), <<1, 10>>), <<9, 10>>)

\* trigger_resize resizing the first split when none is picked.
trigger_resize_unpicked(cursor_position) ==
    LET splits == split_regions(bounds)
        found == IF action.kind = "SplitPicked"
                 THEN { i \in DOMAIN splits : splits[i].split = action.split }
                 ELSE DOMAIN splits
    IN  IF on_resize.some /\ found # {}
        THEN LET s == splits[Min(found)]
                 ratio ==
                   IF s.axis = "Horizontal"
                   THEN clamp_ratio(QSub(QSub(cursor_position.y, bounds.y), s.region.y),
                                    s.region.height)
                   ELSE clamp_ratio(QSub(QSub(cursor_position.x, bounds.x), s.region.x),
                                    s.region.width)
             IN  [published |-> << [type |-> "Resized", split |-> s.split,
                                    ratio |-> ratio] >>,
                  status |-> "Captured"]
        ELSE [published |-> << >>, status |-> "Ignored"]

\* trigger_resize: what it publishes and the status it returns.
trigger_resize(cursor_position) ==
    IF on_resize.some /\ action.kind = "SplitPicked"
    THEN LET splits == split_regions(bounds)
             found == { i \in DOMAIN splits : splits[i].split = action.split }
         IN  IF found = {} THEN [published |-> << >>, status |-> "Ignored"]
             ELSE LET s == splits[Min(found)]
                      ratio ==
                        IF s.axis = "Horizontal"
                        THEN clamp_ratio(QSub(QSub(cursor_position.y, bounds.y), s.region.y),
                                         s.region.height)
                        ELSE clamp_ratio(QSub(QSub(cursor_position.x, bounds.x), s.region.x),
                                         s.region.width)
                  IN  [published |-> << [type |-> "Resized", split |-> action.split,
                                         ratio |-> ratio] >>,
                       status |-> "Captured"]
    ELSE [published |-> << >>, status |-> "Ignored"]

(***************************************************************************)
(* Widget::on_event.                                                       *)
(***************************************************************************)
\* event::Status::merge
merge(a, b) == IF a = "Captured" \/ b = "Captured" THEN "Captured" ELSE "Ignored"

\* The status a pane's content returns for an event: contents are the
\* application's; an interactive one captures what happens over it.
content_status(child_bounds, cursor_position, interactive) ==
    IF interactive /\ contains(child_bounds, cursor_position)
    THEN "Captured" ELSE "Ignored"

RECURSIVE fold_status(_, _, _, _)
fold_status(nodes, cursor_position, interactive, event_status) ==
    IF nodes = << >> THEN event_status
    ELSE fold_status(Tail(nodes), cursor_position, interactive,
                     merge(event_status,
                           content_status(Head(nodes).bounds, cursor_position,
                                          interactive)))

\* The pane handed to the contents as the picked one, -1 for None.
picked_pane(act) == IF act.kind = "PanePicked" THEN act.pane ELSE -1

\* press_arm not looking at the bounds of the pane grid.
press_arm_unbounded(cursor_position) ==
    LET relative_cursor == Point(QSub(cursor_position.x, bounds.x),
                                 QSub(cursor_position.y, bounds.y))
        clicked_split == IF on_resize.some
                         THEN hovered_split(split_regions(bounds),
                                            grab_length(on_resize.leeway),
                                            relative_cursor)
                         ELSE [some |-> FALSE]
        clicked == click_pane(children, cursor_position)
    IN  IF clicked_split.some
        THEN [action |-> pick_split(clicked_split.split, clicked_split.axis),
              published |-> << >>, status |-> "Captured"]
        ELSE [action |-> clicked.action, published |-> clicked.published,
              status |-> "Captured"]

\* press_arm with the pane regions tested before the split regions.
press_arm_panes_first(cursor_position) ==
    IF contains(bounds, cursor_position)
    THEN LET clicked == click_pane(children, cursor_position)
             relative_cursor == Point(QSub(cursor_position.x, bounds.x),
                                      QSub(cursor_position.y, bounds.y))
         IN  IF first_region_at(children, cursor_position) # 0 \/ ~on_resize.some
             THEN [action |-> clicked.action, published |-> clicked.published,
                   status |-> "Captured"]
             ELSE LET clicked_split == hovered_split(split_regions(bounds),
                                                     grab_length(on_resize.leeway),
                                                     relative_cursor)
                  IN  IF clicked_split.some
                      THEN [action |-> pick_split(clicked_split.split, clicked_split.axis),
                            published |-> << >>, status |-> "Captured"]
                      ELSE [action |-> action, published |-> << >>, status |-> "Captured"]
    ELSE [action |-> action, published |-> << >>, status |-> "Ignored"]

\* The match arm of a press: ButtonPressed(Left) or FingerPressed.
press_arm(cursor_position) ==
    IF contains(bounds, cursor_position)
    THEN IF on_resize.some
         THEN LET relative_cursor == Point(QSub(cursor_position.x, bounds.x),
                                           QSub(cursor_position.y, bounds.y))
                  clicked_split == hovered_split(split_regions(bounds),
                                                 grab_length(on_resize.leeway),
                                                 relative_cursor)
              IN  IF clicked_split.some
                  THEN [action |-> pick_split(clicked_split.split, clicked_split.axis),
                        published |-> << >>, status |-> "Captured"]
                  ELSE LET clicked == click_pane(children, cursor_position)
                       IN  [action |-> clicked.action, published |-> clicked.published,
                            status |-> "Captured"]
         ELSE LET clicked == click_pane(children, cursor_position)
              IN  [action |-> clicked.action, published |-> clicked.published,
                   status |-> "Captured"]
    ELSE [action |-> action, published |-> << >>, status |-> "Ignored"]

\* drop_event without the comparison of the target with the picked pane.
drop_event_on_itself(pane, nodes, cursor_position) ==
    LET i == first_region_at(nodes, cursor_position)
    IN  IF i # 0
        THEN [type |-> "Dropped", pane |-> pane, target |-> nodes[i].pane]
        ELSE [type |-> "Canceled", pane |-> pane]

\* The drag event of a release while `pane` is picked.
drop_event(pane, nodes, cursor_position) ==
    LET i == first_region_at(nodes, cursor_position)
    IN  IF i # 0 /\ nodes[i].pane # pane
        THEN [type |-> "Dropped", pane |-> pane, target |-> nodes[i].pane]
        ELSE [type |-> "Canceled", pane |-> pane]

\* release_arm that goes idle only after a picked pane.
release_arm_keeps_split(cursor_position) ==
    IF action.kind = "PanePicked"
    THEN [action |-> Idle,
          published |-> IF on_drag
                        THEN << drop_event(action.pane, children, cursor_position) >>
                        ELSE << >>,
          status |-> "Captured"]
    ELSE [action |-> action, published |-> << >>, status |-> "Ignored"]

\* The match arm of a release: ButtonReleased(Left), FingerLifted, FingerLost.
release_arm(cursor_position) ==
    IF action.kind = "PanePicked"
    THEN [action |-> Idle,
          published |-> IF on_drag
                        THEN << drop_event(action.pane, children, cursor_position) >>
                        ELSE << >>,
          status |-> "Captured"]
    ELSE IF action.kind = "SplitPicked"
    THEN [action |-> Idle, published |-> << >>, status |-> "Captured"]
    ELSE [action |-> action, published |-> << >>, status |-> "Ignored"]

\* move_arm capturing every move once a resize handler is configured.
move_arm_captures(cursor_position) ==
    LET resized == trigger_resize(cursor_position)
    IN  [action |-> action, published |-> resized.published,
         status |-> IF on_resize.some THEN "Captured" ELSE resized.status]

\* The match arm of a move: CursorMoved or FingerMoved.
move_arm(cursor_position) ==
    LET resized == trigger_resize(cursor_position)
    IN  [action |-> action, published |-> resized.published, status |-> resized.status]

\* Any other event.
other_arm == [action |-> action, published |-> << >>, status |-> "Ignored"]

\* The pane of the last drag event published, these events included, if
\* that is a Picked.
dragging_after(events) ==
    LET drags == { i \in DOMAIN events :
                     events[i].type \in {"Picked", "Dropped", "Canceled"} }
    IN  IF drags = {} THEN dragging
        ELSE LET last == events[CHOOSE i \in drags : \A j \in drags : j <= i]
             IN  IF last.type = "Picked" THEN last.pane ELSE -1

\* on_event telling the contents which pane was picked before the event.
on_event_flag_before(kind, cursor_position, interactive, arm) ==
    /\ action' = arm.action
    /\ published' = arm.published
    /\ own_status' = arm.status
    /\ forwarded' = [ i \in DOMAIN elements |->
                        [ pane |-> elements[i],
                          is_picked |-> picked_pane(action) = elements[i] ] ]
    /\ status' = fold_status(children, cursor_position, interactive, arm.status)
    /\ event' = [kind |-> kind, cursor |-> cursor_position, interactive |-> interactive]
    /\ before' = [layout |-> layout, action |-> action, dragging |-> dragging]
    /\ dragging' = dragging_after(arm.published)
    /\ UNCHANGED << layout, config, children, store >>

\* on_event applying the ratio of the Resized it publishes to the layout.
on_event_resizing(kind, cursor_position, interactive, arm) ==
    /\ action' = arm.action
    /\ published' = arm.published
    /\ own_status' = arm.status
    /\ forwarded' = [ i \in DOMAIN elements |->
                        [ pane |-> elements[i],
                          is_picked |-> picked_pane(arm.action) = elements[i] ] ]
    /\ status' = fold_status(children, cursor_position, interactive, arm.status)
    /\ event' = [kind |-> kind, cursor |-> cursor_position, interactive |-> interactive]
    /\ before' = [layout |-> layout, action |-> action, dragging |-> dragging]
    /\ dragging' = dragging_after(arm.published)
    /\ layout' = IF arm.published # << >> /\ arm.published[1].type = "Resized"
                 THEN resize_node(layout, arm.published[1].split, arm.published[1].ratio)
                 ELSE layout
    /\ children' = widget_layout(layout', spacing, bounds)
    /\ UNCHANGED << config, store >>

\* on_event: the arm of the event, then the event is handed to every content.
on_event(kind, cursor_position, interactive, arm) ==
    /\ action' = arm.action
    /\ published' = arm.published
    /\ own_status' = arm.status
    /\ forwarded' = [ i \in DOMAIN elements |->
                        [ pane |-> elements[i],
                          is_picked |-> picked_pane(arm.action) = elements[i] ] ]
    /\ status' = fold_status(children, cursor_position, interactive, arm.status)
    /\ event' = [kind |-> kind, cursor |-> cursor_position, interactive |-> interactive]
    /\ before' = [layout |-> layout, action |-> action, dragging |-> dragging]
    /\ dragging' = dragging_after(arm.published)
    /\ UNCHANGED << layout, config, children, store >>

Press ==
    \E c \in Cursors, interactive \in BOOLEAN :
        on_event("Press", c, interactive, press_arm(c))

Release ==
    \E c \in Cursors, interactive \in BOOLEAN :
        on_event("Release", c, interactive, release_arm(c))

Move ==
    \E c \in Cursors, interactive \in BOOLEAN :
        on_event("Move", c, interactive, move_arm(c))

Other ==
    \E c \in Cursors, interactive \in BOOLEAN :
        on_event("Other", c, interactive, other_arm)

\* The handlers configured (on_click, on_drag, on_resize): all of them, all
\* but one, none.
Handlers ==
    { << TRUE, TRUE, TRUE >>, << FALSE, TRUE, TRUE >>, << TRUE, FALSE, TRUE >>,
      << TRUE, TRUE, FALSE >>, << FALSE, FALSE, FALSE >> }

Init ==
    /\ \E S \in InitStates :
          layout = S.layout /\ panes = S.panes /\ last_id = S.last_id
    /\ called = [op |-> "new", known |-> TRUE, some |-> TRUE]
    /\ action = Idle
    /\ spacing \in {0, Spacing}
    /\ on_click \in BOOLEAN
    /\ on_drag \in BOOLEAN
    /\ on_resize \in {NoResize, [some |-> TRUE, leeway |-> Leeway]}
    /\ << on_click, on_drag, on_resize.some >> \in Handlers
    /\ bounds = Rectangle(GridOrigin.x, GridOrigin.y, I(GridSize), I(GridSize))
    /\ children = widget_layout(layout, spacing, bounds)
    /\ event = [kind |-> "None"]
    /\ published = << >>
    /\ own_status = "Ignored"
    /\ status = "Ignored"
    /\ forwarded = << >>
    /\ before = [layout |-> layout, action |-> Idle, dragging |-> -1]
    /\ dragging = -1

Next == Press \/ Release \/ Move \/ Other

Spec == Init /\ [][Next]_vars

(***************************************************************************)
(* The application working on the State while no pane grid borrows it:     *)
(* State::new, then any of split, close, swap, resize and                  *)
(* drag_and_drop_commit, with ids the layout holds and ids it does not.    *)
(***************************************************************************)
\* The largest id the counter is let to reach.
MaxId == 5

\* The ids the operations are called with: those of the panes and of the
\* splits of the layout, and one the counter has not reached.
PaneIds == DOMAIN panes \cup {last_id + 1}

SplitIds == { splits_of(layout)[i] : i \in DOMAIN splits_of(layout) } \cup {last_id + 1}

\* The ratio resize is called with.
ResizeRatios == { <<0, 1>> }

\* state::Internal as the operations take it.
internal == [layout |-> layout, panes |-> panes, last_id |-> last_id]

\* The call takes effect and is recorded: whether the ids it was given are
\* in the layout, and whether it returned something.
Apply(outcome, op, known) ==
    /\ layout' = outcome.state.layout
    /\ panes' = outcome.state.panes
    /\ last_id' = outcome.state.last_id
    /\ called' = [op |-> op, known |-> known, some |-> outcome.returned.some]
    /\ UNCHANGED << action, config, children, event, published, own_status,
                    status, forwarded, before, dragging >>

StateSplit ==
    \E pane \in PaneIds, axis \in Axes :
        /\ Len(panes_of(layout)) < MaxPanes
        /\ last_id + 2 <= MaxId
        /\ Apply(state_split(internal, axis, pane, "next"),
                 "split", pane \in DOMAIN panes)

StateClose ==
    \E pane \in PaneIds :
        Apply(state_close(internal, pane), "close", pane \in DOMAIN panes)

StateSwap ==
    \E a \in PaneIds, b \in PaneIds :
        Apply(state_swap(internal, a, b), "swap", {a, b} \subseteq DOMAIN panes)

StateResize ==
    \E split \in SplitIds, ratio \in ResizeRatios :
        Apply(state_resize(internal, split, ratio), "resize", split # last_id + 1)

DragAndDropCommit ==
    \E dragged \in PaneIds, target \in PaneIds, axis \in Axes :
        /\ last_id + 1 <= MaxId
        /\ Apply(drag_and_drop_commit(internal, dragged, target, axis),
                 "drag_and_drop_commit", {dragged, target} \subseteq DOMAIN panes)

InitState ==
    /\ LET S == state_new("first").state
       IN  layout = S.layout /\ panes = S.panes /\ last_id = S.last_id
    /\ called = [op |-> "new", known |-> TRUE, some |-> TRUE]
    /\ action = Idle
    /\ spacing = Spacing
    /\ on_click = FALSE
    /\ on_drag = FALSE
    /\ on_resize = NoResize
    /\ bounds = Rectangle(GridOrigin.x, GridOrigin.y, I(GridSize), I(GridSize))
    /\ children = << >>
    /\ event = [kind |-> "None"]
    /\ published = << >>
    /\ own_status = "Ignored"
    /\ status = "Ignored"
    /\ forwarded = << >>
    /\ before = [layout |-> layout, action |-> Idle, dragging |-> -1]
    /\ dragging = -1

NextState ==
    StateSplit \/ StateClose \/ StateSwap \/ StateResize \/ DragAndDropCommit

SpecState == InitState /\ [][NextState]_vars

(***************************************************************************)
(* The application changing the layout in the middle of a gesture: between *)
(* two events it handles the messages published, calls split, close, swap  *)
(* or drag_and_drop_commit on the State, and the pane grid is built and    *)
(* laid out again over what the State holds then. The interaction state is *)
(* the State's and is left as it was.                                      *)
(***************************************************************************)
\* Cursor positions tried while the layout changes.
LivePoints == { <<25, 10>>, <<49, 50>>, <<75, 80>> }

LiveCursors ==
    { Point(QAdd(GridOrigin.x, I(p[1])), QAdd(GridOrigin.y, I(p[2])))
        : p \in LivePoints }

\* The operation takes effect while a pane or a split is picked, and the
\* pane grid is rebuilt: PaneGrid::new, then Widget::layout.
Rebuilt(outcome, op) ==
    /\ action.kind # "Idle"
    /\ outcome.returned.some
    /\ layout' = outcome.state.layout
    /\ panes' = outcome.state.panes
    /\ last_id' = outcome.state.last_id
    /\ called' = [op |-> op, known |-> TRUE, some |-> TRUE]
    /\ children' = widget_layout(layout', spacing, bounds)
    /\ event' = [kind |-> "None"]
    /\ published' = << >>
    /\ own_status' = "Ignored"
    /\ status' = "Ignored"
    /\ forwarded' = << >>
    /\ before' = [layout |-> layout', action |-> action, dragging |-> dragging]
    /\ UNCHANGED << action, config, dragging >>

LiveSplit ==
    \E pane \in DOMAIN panes, axis \in Axes :
        /\ Len(panes_of(layout)) < MaxPanes
        /\ last_id + 2 <= MaxId
        /\ Rebuilt(state_split(internal, axis, pane, "next"), "split")

LiveClose ==
    \E pane \in DOMAIN panes : Rebuilt(state_close(internal, pane), "close")

LiveSwap ==
    \E a \in DOMAIN panes, b \in DOMAIN panes :
        a # b /\ Rebuilt(state_swap(internal, a, b), "swap")

LiveDragAndDropCommit ==
    \E dragged \in DOMAIN panes, target \in DOMAIN panes, axis \in Axes :
        /\ last_id + 1 <= MaxId
        /\ Rebuilt(drag_and_drop_commit(internal, dragged, target, axis),
                   "drag_and_drop_commit")

LivePress == \E c \in LiveCursors : on_event("Press", c, FALSE, press_arm(c))

LiveRelease == \E c \in LiveCursors : on_event("Release", c, FALSE, release_arm(c))

LiveMove == \E c \in LiveCursors : on_event("Move", c, FALSE, move_arm(c))

InitLive ==
    /\ Init
    /\ on_click /\ on_drag /\ on_resize.some
    /\ spacing = Spacing

NextLive ==
    \/ LivePress \/ LiveRelease \/ LiveMove
    \/ LiveSplit \/ LiveClose \/ LiveSwap \/ LiveDragAndDropCommit

SpecLive == InitLive /\ [][NextLive]_vars

(***************************************************************************)
(* Widget::mouse_interaction.                                              *)
(***************************************************************************)
\* mouse::Interaction, in the order its maximum is taken in.
interaction_rank(interaction) ==
    CASE interaction = "Idle" -> 0
      [] interaction = "Pointer" -> 1
      [] interaction = "Grab" -> 2
      [] interaction = "ResizingHorizontally" -> 7
      [] interaction = "ResizingVertically" -> 8

\* The interaction a pane's content reports: an interactive one reports a
\* pointer where the cursor is over it.
content_interaction(child_bounds, cursor_position, interactive) ==
    IF interactive /\ contains(child_bounds, cursor_position)
    THEN "Pointer" ELSE "Idle"

\* .max().unwrap_or_default() over the contents' interactions
max_interaction(nodes, cursor_position, interactive) ==
    LET reported == { content_interaction(nodes[i].bounds, cursor_position, interactive)
                        : i \in DOMAIN nodes }
    IN  IF reported = {} THEN "Idle"
        ELSE CHOOSE m \in reported :
                \A r \in reported : interaction_rank(r) <= interaction_rank(m)

\* mouse_interaction reporting a resize along the split's own axis.
mouse_interaction_along(cursor_position, interactive) ==
    IF action.kind = "PanePicked" THEN "Grab"
    ELSE LET relative_cursor == Point(QSub(cursor_position.x, bounds.x),
                                      QSub(cursor_position.y, bounds.y))
             hovered == IF on_resize.some
                        THEN hovered_split(split_regions(bounds),
                                           grab_length(on_resize.leeway), relative_cursor)
                        ELSE [some |-> FALSE]
             resize_axis == IF action.kind = "SplitPicked"
                            THEN [some |-> TRUE, axis |-> action.axis]
                            ELSE hovered
         IN  IF resize_axis.some
             THEN IF resize_axis.axis = "Horizontal"
                  THEN "ResizingHorizontally" ELSE "ResizingVertically"
             ELSE max_interaction(children, cursor_position, interactive)

\* mouse_interaction: the cursor the pane grid asks for.
mouse_interaction(cursor_position, interactive) ==
    IF action.kind = "PanePicked" THEN "Grab"
    ELSE LET relative_cursor == Point(QSub(cursor_position.x, bounds.x),
                                      QSub(cursor_position.y, bounds.y))
             hovered == IF on_resize.some
                        THEN hovered_split(split_regions(bounds),
                                           grab_length(on_resize.leeway), relative_cursor)
                        ELSE [some |-> FALSE]
             resize_axis == IF action.kind = "SplitPicked"
                            THEN [some |-> TRUE, axis |-> action.axis]
                            ELSE hovered
         IN  IF resize_axis.some
             THEN IF resize_axis.axis = "Horizontal"
                  THEN "ResizingVertically" ELSE "ResizingHorizontally"
             ELSE max_interaction(children, cursor_position, interactive)

(***************************************************************************)
(* Widget::draw: how each pane is drawn - the translation it is drawn      *)
(* under, whether in a layer of its own, and the cursor it is given.       *)
(***************************************************************************)
\* draw moving the picked pane by the cursor less its top-left corner.
draw_from_corner(cursor_position) ==
    LET pane_cursor_position == IF action.kind = "PanePicked"
                                THEN Point(I(-1), I(-1)) ELSE cursor_position
    IN  [ i \in DOMAIN children |->
            IF action.kind = "PanePicked" /\ elements[i] = action.pane
            THEN [pane |-> elements[i],
                  translation |-> Point(QSub(cursor_position.x, children[i].bounds.x),
                                        QSub(cursor_position.y, children[i].bounds.y)),
                  layer |-> TRUE,
                  cursor |-> pane_cursor_position]
            ELSE [pane |-> elements[i],
                  translation |-> Point(I(0), I(0)),
                  layer |-> FALSE,
                  cursor |-> pane_cursor_position] ]

\* draw
draw(cursor_position) ==
    LET pane_cursor_position == IF action.kind = "PanePicked"
                                THEN Point(I(-1), I(-1)) ELSE cursor_position
    IN  [ i \in DOMAIN children |->
            IF action.kind = "PanePicked" /\ elements[i] = action.pane
            THEN [pane |-> elements[i],
                  translation |->
                      Point(QSub(cursor_position.x,
                                 QAdd(children[i].bounds.x, action.origin.x)),
                            QSub(cursor_position.y,
                                 QAdd(children[i].bounds.y, action.origin.y))),
                  layer |-> TRUE,
                  cursor |-> pane_cursor_position]
            ELSE [pane |-> elements[i],
                  translation |-> Point(I(0), I(0)),
                  layer |-> FALSE,
                  cursor |-> pane_cursor_position] ]

(***************************************************************************)
(* Vocabulary of the properties: the last event and what it met.           *)
(***************************************************************************)
QAbs(a) == << Abs(a[1]), a[2] >>

Handled(kind) == event.kind = kind

\* The cursor of the last event, relative to the pane grid.
RelativeCursor ==
    Point(QSub(event.cursor.x, bounds.x), QSub(event.cursor.y, bounds.y))

InsideBounds == contains(bounds, event.cursor)

Splits == split_regions(bounds)

\* p is no farther than `reach` from the line of split s, along the axis
\* of s, and beside it.
NearLine(s, p, reach) ==
    IF s.axis = "Vertical"
    THEN /\ QLe(QAbs(QSub(p.x, QAdd(s.region.x, QMul(s.region.width, s.ratio)))), reach)
         /\ QLe(s.region.y, p.y) /\ QLe(p.y, QAdd(s.region.y, s.region.height))
    ELSE /\ QLe(QAbs(QSub(p.y, QAdd(s.region.y, QMul(s.region.height, s.ratio)))), reach)
         /\ QLe(s.region.x, p.x) /\ QLe(p.x, QAdd(s.region.x, s.region.width))

\* The splits whose grab band the last event's cursor is in.
SplitsGrabbed ==
    { i \in DOMAIN Splits :
        NearLine(Splits[i], RelativeCursor, Half(I(spacing + on_resize.leeway))) }

\* A split is hit-tested and hit: the press goes to a split.
SplitHit == on_resize.some /\ SplitsGrabbed # {}

\* The panes whose region the last event's cursor is in.
PanesUnder == { i \in DOMAIN children : contains(children[i].bounds, event.cursor) }

Emitted(type) == { i \in DOMAIN published : published[i].type = type }

DomainEvents == {"PaneClicked", "Picked", "Dropped", "Canceled", "Resized"}

(***************************************************************************)
(* C1. A press inside the bounds, with a resize handler, inside the grab   *)
(* band of a split: the state becomes SplitPicked for a split whose band   *)
(* holds the point, with that split's axis, and nothing is published, also *)
(* when the point is inside a pane's region.                               *)
(***************************************************************************)
C1_SplitPressPicksSplit ==
    (Handled("Press") /\ InsideBounds /\ SplitHit) =>
        /\ action.kind = "SplitPicked"
        /\ \E i \in SplitsGrabbed :
              action.split = Splits[i].split /\ action.axis = Splits[i].axis
        /\ published = << >>

C1_Witness ==
    /\ Handled("Press") /\ InsideBounds /\ SplitHit
    /\ PanesUnder # {}
    /\ on_click /\ on_drag
    /\ before.action = Idle
    /\ action.kind = "SplitPicked"

(***************************************************************************)
(* C2. A press inside the bounds that goes to no split and lies inside the *)
(* region of a pane.                                                       *)
(***************************************************************************)
PaneHit == Handled("Press") /\ InsideBounds /\ ~SplitHit /\ PanesUnder # {}

\* press position minus the top-left corner of the pane's rectangle
OriginOffset(child) ==
    Point(QSub(event.cursor.x, child.bounds.x), QSub(event.cursor.y, child.bounds.y))

Clicked(pane) == [type |-> "PaneClicked", pane |-> pane]

Picked(pane) == [type |-> "Picked", pane |-> pane]

\* C2 as claimed: PaneClicked(p) is published for a pane p under the
\* point, whatever handlers are configured; with a drag handler and the
\* point in p's pick region the state becomes PanePicked{p, origin_offset}
\* and Picked{p} follows PaneClicked(p); otherwise the state is not changed
\* and no Picked is published.
C2_AsClaimed ==
    PaneHit =>
        \E i \in PanesUnder :
            LET p == children[i]
            IN  /\ published # << >> /\ published[1] = Clicked(p.pane)
                /\ IF on_drag /\ can_be_picked_at(p.bounds, event.cursor)
                   THEN /\ action = PanePicked(p.pane, OriginOffset(p))
                        /\ published = << Clicked(p.pane), Picked(p.pane) >>
                   ELSE /\ action = before.action
                        /\ Emitted("Picked") = {}

\* C2, amended: PaneClicked(p) is published exactly when a click handler is
\* configured, p being the first pane in element order whose region holds
\* the point; with a drag handler and the point in p's pick region the
\* state becomes PanePicked{p, origin_offset} and Picked{p} is published
\* after the PaneClicked(p), if any; otherwise the state is unchanged and no
\* Picked is published.
C2_PanePress ==
    PaneHit =>
        LET p == children[Min(PanesUnder)]
            clicked == IF on_click THEN << Clicked(p.pane) >> ELSE << >>
        IN  IF on_drag /\ can_be_picked_at(p.bounds, event.cursor)
            THEN /\ action = PanePicked(p.pane, OriginOffset(p))
                 /\ published = clicked \o << Picked(p.pane) >>
            ELSE /\ action = before.action
                 /\ published = clicked

C2_Witness ==
    /\ PaneHit
    /\ Cardinality(PanesUnder) = 2
    /\ on_click /\ on_drag
    /\ action.kind = "PanePicked"
    /\ action.origin.x # I(0)
    /\ Len(published) = 2

(***************************************************************************)
(* C3. A release while a pane is picked and a drag handler is configured.  *)
(***************************************************************************)
PaneReleased ==
    Handled("Release") /\ before.action.kind = "PanePicked" /\ on_drag

C4_ReleaseIdles ==
    Handled("Release") =>
        /\ action = Idle
        /\ before.action.kind = "SplitPicked" => published = << >>

C4_Witness ==
    /\ Handled("Release")
    /\ before.action.kind = "SplitPicked"
    /\ on_drag
    /\ PanesUnder # {}
    /\ action = Idle

(***************************************************************************)
(* C5. A move while a split is picked and a resize handler is configured   *)
(* publishes Resized{split, ratio} for the picked split, the ratio being   *)
(* (pointer position - origin of the split's rectangle) / extent of the    *)
(* rectangle, along the split's axis, clamped to [0.1, 0.9]; the ratio of  *)
(* every Resized published lies in [0.1, 0.9], wherever the pointer is.    *)
(***************************************************************************)
SplitMoved ==
    Handled("Move") /\ before.action.kind = "SplitPicked" /\ on_resize.some

SplitNamed(id) == Splits[CHOOSE i \in DOMAIN Splits : Splits[i].split = id]

\* The pointer's position along the axis of s as a share of s's rectangle.
PointerShare(s) ==
    IF s.axis = "Horizontal"
    THEN QDiv(QSub(event.cursor.y, QAdd(bounds.y, s.region.y)), s.region.height)
    ELSE QDiv(QSub(event.cursor.x, QAdd(bounds.x, s.region.x)), s.region.width)

Clamped(q) ==
    IF QLt(q, <<1, 10>>) THEN <<1, 10>>
    ELSE IF QLt(<<9, 10>>, q) THEN <<9, 10>> ELSE q

C5_ResizedRatioClamped ==
    /\ SplitMoved =>
          published = << [type |-> "Resized", split |-> before.action.split,
                          ratio |-> Clamped(PointerShare(SplitNamed(before.action.split)))] >>
    /\ \A i \in Emitted("Resized") :
          QLe(<<1, 10>>, published[i].ratio) /\ QLe(published[i].ratio, <<9, 10>>)

C5_Witness ==
    /\ SplitMoved
    /\ ~InsideBounds
    /\ Emitted("Resized") # {}
    /\ QLt(PointerShare(SplitNamed(before.action.split)), I(0))
    /\ published[1].ratio = <<1, 10>>

(***************************************************************************)
(* C6. The status returned for a pointer move.                             *)
(***************************************************************************)
\* Some pane's content captured the last event.
ContentCaptured ==
    \E i \in DOMAIN children :
        content_status(children[i].bounds, event.cursor, event.interactive) = "Captured"

\* C6 as claimed: while the state is Idle or PanePicked the status returned
\* for a pointer move is not Captured.
C6_AsClaimed ==
    (Handled("Move") /\ before.action.kind \in {"Idle", "PanePicked"}) =>
        status # "Captured"

\* C6, amended: for a pointer move the pane grid's own status, before the
\* statuses of the panes' contents are merged into it, is Captured only if
\* a split is picked; the status returned is Captured only if a split is
\* picked or the content of some pane captured the event.
C6_MoveCapturedOnlyBySplit ==
    Handled("Move") =>
        /\ own_status = "Captured" => before.action.kind = "SplitPicked"
        /\ status = "Captured" =>
              (before.action.kind = "SplitPicked" \/ ContentCaptured)

C6_Witness ==
    /\ Handled("Move")
    /\ before.action.kind = "PanePicked"
    /\ on_resize.some
    /\ Splits # << >>
    /\ own_status = "Ignored"
    /\ status = "Captured"

(***************************************************************************)
(* C7. A move while the state is Idle or PanePicked publishes no Resized   *)
(* event and leaves the state as it was.                                   *)
(***************************************************************************)
C7_MoveWithoutSplit ==
    (Handled("Move") /\ before.action.kind \in {"Idle", "PanePicked"}) =>
        /\ Emitted("Resized") = {}
        /\ action = before.action

C7_Witness ==
    /\ Handled("Move")
    /\ before.action.kind = "PanePicked"
    /\ on_resize.some
    /\ SplitsGrabbed # {}
    /\ published = << >>
    /\ action.kind = "PanePicked"

(***************************************************************************)
(* C8. Handling an event leaves the layout tree as it was: the panes, the  *)
(* shape, every split's axis and ratio; a Resized{split, ratio} published  *)
(* does not set the ratio of the split.                                    *)
(***************************************************************************)
C8_LayoutUntouched ==
    event.kind # "None" =>
        /\ layout = before.layout
        /\ children = widget_layout(before.layout, spacing, bounds)

C8_Witness ==
    /\ Handled("Move")
    /\ Emitted("Resized") # {}
    /\ published[1].ratio # SplitNamed(published[1].split).ratio
    /\ layout = before.layout

(***************************************************************************)
(* C9. Hit-testing of a press inside the bounds.                           *)
(***************************************************************************)
PressInside == Handled("Press") /\ InsideBounds

\* C9 as claimed: every point inside the bounds selects exactly one
\* region, a split region if it is within a split's band and a pane region
\* otherwise; no point selects nothing and no point matches two regions of
\* the same kind.
C9_AsClaimed ==
    PressInside =>
        /\ SplitHit \/ PanesUnder # {}
        /\ on_resize.some => Cardinality(SplitsGrabbed) <= 1
        /\ Cardinality(PanesUnder) <= 1

\* C9, amended: a press inside the bounds selects at most one region: with
\* a resize handler and the point in the band of some split, the first such
\* split, a split coming before those of its first child and those before
\* its second child's; otherwise the first pane in element order whose
\* region holds the point.  A point may be in several bands (where they
\* cross) and in several pane regions (on a shared edge, at spacing 0).
\* Some region is selected whenever a resize handler is configured or the
\* spacing is 0; with spacing and no resize handler the points between two
\* panes select nothing.
C9_FirstRegionSelected ==
    PressInside =>
        /\ SplitHit =>
              action = SplitPicked(Splits[Min(SplitsGrabbed)].split,
                                   Splits[Min(SplitsGrabbed)].axis)
        /\ (~SplitHit /\ PanesUnder # {}) =>
              LET p == children[Min(PanesUnder)]
              IN  /\ on_click => published[1] = Clicked(p.pane)
                  /\ (action.kind = "PanePicked" /\ action # before.action) =>
                        action.pane = p.pane
        /\ (~SplitHit /\ PanesUnder = {}) =>
              (published = << >> /\ action = before.action)
        /\ (on_resize.some \/ spacing = 0) => (SplitHit \/ PanesUnder # {})

C9_Witness ==
    /\ PressInside
    /\ on_resize.some
    /\ Cardinality(SplitsGrabbed) = 2
    /\ PanesUnder # {}
    /\ action.kind = "SplitPicked"
    /\ action.split = Splits[1].split

\* A press inside the bounds that selects nothing.
C9_NothingSelected ==
    /\ PressInside
    /\ on_click /\ on_drag
    /\ ~SplitHit /\ PanesUnder = {}
    /\ published = << >>

(***************************************************************************)
(* C10. The grabbable band of a split is spacing + leeway long along the   *)
(* split's axis and centered on the split line: a press no farther than    *)
(* (spacing + leeway) / 2 from the line picks a split, one farther from    *)
(* every line picks none.  With spacing 4 and leeway 6, a vertical split   *)
(* at ratio 1/2 of a grid 100 wide is picked from x = 45 to x = 55, so by  *)
(* a press at (49, 50).  The leeway does not enter the pane rectangles:    *)
(* two panes side by side are spacing apart.                               *)
(***************************************************************************)
RootIsHalfVertical ==
    /\ layout.kind = "Split" /\ layout.axis = "Vertical" /\ layout.ratio = <<1, 2>>
    /\ bounds.width = I(100) /\ spacing = 4 /\ on_resize.leeway = 6

\* The extent of r along axis.
Extent(r, axis) == IF axis = "Horizontal" THEN r.height ELSE r.width

C10_GrabBand ==
    /\ (PressInside /\ on_resize.some) =>
          /\ SplitsGrabbed # {} =>
                /\ action.kind = "SplitPicked"
                /\ \E i \in SplitsGrabbed : action.split = Splits[i].split
          /\ SplitsGrabbed = {} =>
                (action.kind = "SplitPicked" => action = before.action)
    /\ (PressInside /\ on_resize.some /\ RootIsHalfVertical) =>
          IF QLe(I(45), RelativeCursor.x) /\ QLe(RelativeCursor.x, I(55))
          THEN action = SplitPicked(layout.id, "Vertical")
          ELSE ~(action.kind = "SplitPicked" /\ action.split = layout.id
                    /\ action # before.action)
    /\ (layout.kind = "Split" /\ Len(children) = 2) =>
          /\ Extent(children[1].bounds, layout.axis)
                = QSub(QMul(Extent(bounds, layout.axis), layout.ratio), Half(I(spacing)))
          /\ QAdd(QAdd(Extent(children[1].bounds, layout.axis), I(spacing)),
                  Extent(children[2].bounds, layout.axis))
                = Extent(bounds, layout.axis)

C10_Witness ==
    /\ PressInside /\ on_resize.some /\ RootIsHalfVertical
    /\ RelativeCursor = Point(I(49), I(50))
    /\ Len(children) = 2
    /\ before.action = Idle
    /\ action = SplitPicked(layout.id, "Vertical")

(***************************************************************************)
(* C11. mouse_interaction reports Grab whenever a pane is picked;          *)
(* otherwise a resize across the axis of the split (Horizontal ->          *)
(* ResizingVertically, Vertical -> ResizingHorizontally) when a split is   *)
(* picked, or when a resize handler is configured and the cursor is within *)
(* the band of a split; otherwise the greatest interaction the contents    *)
(* report, the default one when none reports any.                          *)
(***************************************************************************)
Across(axis) ==
    IF axis = "Horizontal" THEN "ResizingVertically" ELSE "ResizingHorizontally"

\* The splits whose grab band holds the cursor c.
SplitsNear(c) ==
    { i \in DOMAIN Splits :
        NearLine(Splits[i], Point(QSub(c.x, bounds.x), QSub(c.y, bounds.y)),
                 Half(I(spacing + on_resize.leeway))) }

ExpectedInteraction(c, interactive) ==
    IF action.kind = "PanePicked" THEN "Grab"
    ELSE IF action.kind = "SplitPicked" THEN Across(action.axis)
    ELSE IF on_resize.some /\ SplitsNear(c) # {}
         THEN Across(Splits[Min(SplitsNear(c))].axis)
    ELSE IF interactive /\ \E i \in DOMAIN children : contains(children[i].bounds, c)
         THEN "Pointer"
    ELSE "Idle"

C11_MouseInteraction ==
    \A c \in Cursors, interactive \in BOOLEAN :
        mouse_interaction(c, interactive) = ExpectedInteraction(c, interactive)

C11_Witness ==
    /\ Handled("Move")
    /\ action = Idle
    /\ on_resize.some
    /\ SplitsGrabbed # {}
    /\ Splits[Min(SplitsGrabbed)].axis = "Horizontal"
    /\ mouse_interaction(event.cursor, TRUE) = "ResizingVertically"
    /\ \E c \in Cursors : mouse_interaction(c, TRUE) = "Pointer"

(***************************************************************************)
(* Vocabulary of the properties of State.                                  *)
(***************************************************************************)
Distinct(seq) == \A i, j \in DOMAIN seq : seq[i] = seq[j] => i = j

Range(seq) == { seq[i] : i \in DOMAIN seq }

\* Every split has two children that are nodes, every leaf is a pane.
RECURSIVE StrictBinary(_)
StrictBinary(node) ==
    \/ node.kind = "Pane" /\ DOMAIN node = {"kind", "id"}
    \/ /\ node.kind = "Split"
       /\ DOMAIN node = {"kind", "id", "axis", "ratio", "first", "second"}
       /\ StrictBinary(node.first)
       /\ StrictBinary(node.second)

\* The ids that name no pane of the layout.
UnknownIds == (0..(MaxId + 1)) \ DOMAIN panes

Unchanged(outcome) == outcome = [state |-> internal, returned |-> None]

(***************************************************************************)
(* C12. After any sequence of split, close, swap, resize and               *)
(* drag_and_drop_commit on a layout created by new, every PaneId and every *)
(* SplitId appears exactly once in the tree, and the tree is a strict      *)
(* binary tree: every split has two children, every leaf is a pane, the    *)
(* tree is never empty.                                                    *)
(***************************************************************************)
C12_IdsOnceStrictBinary ==
    /\ StrictBinary(layout)
    /\ Distinct(panes_of(layout))
    /\ Distinct(splits_of(layout))
    /\ Range(panes_of(layout)) = DOMAIN panes

C12_Witness ==
    /\ called.op = "drag_and_drop_commit"
    /\ called.some
    /\ Len(panes_of(layout)) >= 3

(***************************************************************************)
(* C13. close of the sole pane of a single-leaf layout returns a failure   *)
(* and leaves the tree, the pane states and the id counter as they were.   *)
(***************************************************************************)
C13_CloseSolePane ==
    layout.kind = "Pane" =>
        LET outcome == state_close(internal, layout.id)
        IN  /\ ~outcome.returned.some
            /\ outcome.state.layout = layout
            /\ outcome.state.panes = panes
            /\ outcome.state.last_id = last_id

C13_Witness ==
    /\ called.op = "close"
    /\ called.known
    /\ ~called.some
    /\ layout.kind = "Pane"
    /\ DOMAIN panes = {layout.id}

(***************************************************************************)
(* C14. Round trip: split(a, axis, state) returning the new pane n, then   *)
(* close(n), gives back the tree, with the same ids at the same places and *)
(* the same ratios, so that every pane has the region it had.              *)
(***************************************************************************)
C14_SplitCloseRoundTrip ==
    LET total == Rectangle(I(0), I(0), bounds.width, bounds.height)
        regions == compute_regions(layout, I(spacing), total)
    IN  \A a \in DOMAIN panes, axis \in Axes :
            LET split == state_split(internal, axis, a, "next")
                closed == state_close(split.state, split.returned.pane)
            IN  /\ split.returned.some
                /\ closed.returned.some
                /\ closed.returned.sibling = a
                /\ closed.state.layout = layout
                /\ closed.state.panes = panes
                /\ compute_regions(closed.state.layout, I(spacing), total) = regions

C14_Witness ==
    /\ called.op = "close"
    /\ called.some
    /\ last_id = 2
    /\ layout = Pane(0)
    /\ panes = (0 :> "first")

(***************************************************************************)
(* C15. resize(split, r) clamps the ratio it stores to [0.1, 0.9]:         *)
(* resize(split, 0.0) leaves the state resize(split, 0.1) leaves,          *)
(* resize(split, 1.0) the state resize(split, 0.9) leaves, and the ratio   *)
(* of every split is always in [0.1, 0.9].                                 *)
(***************************************************************************)
RECURSIVE ratios_of(_)
ratios_of(node) ==
    IF node.kind = "Pane" THEN {}
    ELSE {node.ratio} \cup ratios_of(node.first) \cup ratios_of(node.second)

Ratios == ratios_of(layout)

C15_AsClaimed ==
    /\ \A split \in Range(splits_of(layout)) :
          /\ state_resize(internal, split, <<0, 1>>)
                 = state_resize(internal, split, <<1, 10>>)
          /\ state_resize(internal, split, <<1, 1>>)
                 = state_resize(internal, split, <<9, 10>>)
    /\ \A ratio \in Ratios : QLe(<<1, 10>>, ratio) /\ QLe(ratio, <<9, 10>>)

(***************************************************************************)
(* C16. split, close, swap and drag_and_drop_commit given the id of no     *)
(* pane of the layout return nothing and leave the tree, the pane states   *)
(* and the ratios as they were; so does drag_and_drop_commit of a pane     *)
(* onto itself.                                                            *)
(***************************************************************************)
C16_UnknownIdNoOp ==
    /\ \A unknown \in UnknownIds, axis \in Axes :
          /\ Unchanged(state_split(internal, axis, unknown, "next"))
          /\ Unchanged(state_close(internal, unknown))
          /\ \A other \in DOMAIN panes \cup UnknownIds :
                /\ Unchanged(state_swap(internal, unknown, other))
                /\ Unchanged(state_swap(internal, other, unknown))
                /\ Unchanged(drag_and_drop_commit(internal, unknown, other, axis))
                /\ Unchanged(drag_and_drop_commit(internal, other, unknown, axis))
    /\ \A pane \in DOMAIN panes, axis \in Axes :
          Unchanged(drag_and_drop_commit(internal, pane, pane, axis))

C16_Witness ==
    /\ called.op = "swap"
    /\ ~called.known
    /\ ~called.some
    /\ layout.kind = "Split"

(***************************************************************************)
(* C17. For every tree, spacing and size, the rectangles of the panes that *)
(* regions gives are one per pane, each inside the total rectangle, no two *)
(* overlapping, and they cover the total rectangle but for the bands of    *)
(* spacing along the split lines.                                          *)
(***************************************************************************)
\* The side of a square with little room for the spacing.
NarrowSize == 10

Total(side) == Rectangle(I(0), I(0), I(side), I(side))

\* regions(T, spacing, size) of the layout
Regions(spacing_, side) == compute_regions(layout, I(spacing_), Total(side))

Inside(r, outer) ==
    /\ QLe(I(0), r.width) /\ QLe(I(0), r.height)
    /\ QLe(outer.x, r.x) /\ QLe(QAdd(r.x, r.width), QAdd(outer.x, outer.width))
    /\ QLe(outer.y, r.y) /\ QLe(QAdd(r.y, r.height), QAdd(outer.y, outer.height))

Apart(r, q) ==
    \/ QLe(QAdd(r.x, r.width), q.x) \/ QLe(QAdd(q.x, q.width), r.x)
    \/ QLe(QAdd(r.y, r.height), q.y) \/ QLe(QAdd(q.y, q.height), r.y)

Area(r) == QMul(r.width, r.height)

RECURSIVE AreaOf(_)
AreaOf(rectangles) ==
    IF rectangles = << >> THEN I(0)
    ELSE QAdd(Area(Head(rectangles)), AreaOf(Tail(rectangles)))

\* The bands of spacing along the split lines.
Bands(spacing_, side) ==
    LET lines == compute_splits(layout, I(spacing_), Total(side))
    IN  [ i \in DOMAIN lines |->
            split_line_bounds(lines[i].axis, lines[i].region, lines[i].ratio,
                              I(spacing_)) ]

Tiles(regions, bands, total) ==
    /\ [ i \in DOMAIN regions |-> regions[i].pane ] = panes_of(layout)
    /\ \A i \in DOMAIN regions : Inside(regions[i].region, total)
    /\ \A i, j \in DOMAIN regions :
          i # j => Apart(regions[i].region, regions[j].region)
    /\ QAdd(AreaOf([ i \in DOMAIN regions |-> regions[i].region ]), AreaOf(bands))
           = Area(total)

C17_AsClaimed ==
    \A spacing_ \in {0, Spacing}, side \in {GridSize, NarrowSize} :
        Tiles(Regions(spacing_, side), Bands(spacing_, side), Total(side))

(***************************************************************************)
(* C18. split(at, axis, new_state) of a pane of the tree puts in the place *)
(* of the leaf a split of ratio 0.5 and of the given axis, whose first     *)
(* child is the new pane and whose second child is the pane that was       *)
(* there; split(A, Vertical, B) of the single pane A gives, at size        *)
(* 100x100 and spacing 0, B the region (0,0,50,100) and A (50,0,50,100).   *)
(***************************************************************************)
\* The split of the tree one of whose children is the leaf of the pane.
RECURSIVE ParentOf(_, _)
ParentOf(node, pane) ==
    IF node.first = Pane(pane) \/ node.second = Pane(pane) THEN node
    ELSE IF node.first.kind = "Split" /\ pane \in Range(panes_of(node.first))
    THEN ParentOf(node.first, pane)
    ELSE ParentOf(node.second, pane)

\* The sequence with every `old` replaced by the elements of `new`.
RECURSIVE Spliced(_, _, _)
Spliced(seq, old, new) ==
    IF seq = << >> THEN << >>
    ELSE (IF Head(seq) = old THEN new ELSE << Head(seq) >>)
             \o Spliced(Tail(seq), old, new)

C18_SplitPutsNewPaneFirst ==
    /\ \A at \in DOMAIN panes, axis \in Axes :
          LET outcome == state_split(internal, axis, at, "next")
              n == outcome.returned.pane
              parent == ParentOf(outcome.state.layout, at)
          IN  /\ outcome.returned.some
              /\ n \notin DOMAIN panes
              /\ parent.axis = axis
              /\ parent.ratio = <<1, 2>>
              /\ parent.first = Pane(n)
              /\ parent.second = Pane(at)
              /\ parent.id \notin Range(splits_of(layout))
              /\ panes_of(outcome.state.layout)
                     = Spliced(panes_of(layout), at, << n, at >>)
              /\ Range(splits_of(outcome.state.layout))
                     = Range(splits_of(layout)) \cup {parent.id}
              /\ remove_node(outcome.state.layout, n) = layout
              /\ outcome.state.panes[n] = "next"
    /\ LET A == state_new("A")
           outcome == state_split(A.state, "Vertical", A.pane, "B")
           B == outcome.returned.pane
       IN  compute_regions(outcome.state.layout, I(0),
                           Rectangle(I(0), I(0), I(100), I(100)))
               = << [pane |-> B, region |-> Rectangle(I(0), I(0), I(50), I(100))],
                    [pane |-> A.pane, region |-> Rectangle(I(50), I(0), I(50), I(100))] >>

C18_Witness ==
    /\ called.op = "split"
    /\ called.some
    /\ layout = Split(2, "Vertical", <<1, 2>>, Pane(1), Pane(0))
    /\ Regions(0, 100)
           = << [pane |-> 1, region |-> Rectangle(I(0), I(0), I(50), I(100))],
                [pane |-> 0, region |-> Rectangle(I(50), I(0), I(50), I(100))] >>

(***************************************************************************)
(* C19. draw moves the picked pane by the cursor position less (the        *)
(* top-left corner of the pane plus the origin offset), the origin offset  *)
(* being the press position less that corner: the translation is zero      *)
(* while the cursor is where the pane was pressed, and follows the cursor  *)
(* after; the panes that are not picked are drawn where they lie.          *)
(***************************************************************************)
Zero == Point(I(0), I(0))

\* The pane was picked by the last event.
JustPicked(pane) ==
    /\ Handled("Press")
    /\ action.kind = "PanePicked"
    /\ action.pane = pane
    /\ \E i \in DOMAIN published : published[i] = Picked(pane)

C19_PickedPaneFollowsCursor ==
    \A i \in DOMAIN children :
        LET child == children[i]
            corner == Point(child.bounds.x, child.bounds.y)
        IN  IF action.kind = "PanePicked" /\ action.pane = child.pane
            THEN /\ \A c \in Cursors :
                       LET moved == draw(c)[i].translation
                       IN  /\ QAdd(QAdd(corner.x, action.origin.x), moved.x) = c.x
                           /\ QAdd(QAdd(corner.y, action.origin.y), moved.y) = c.y
                 /\ JustPicked(child.pane) =>
                       /\ action.origin = OriginOffset(child)
                       /\ draw(event.cursor)[i].translation = Zero
            ELSE \A c \in Cursors : draw(c)[i].translation = Zero

C19_Witness ==
    /\ Handled("Move")
    /\ action.kind = "PanePicked"
    /\ action.origin # Zero
    /\ Len(children) >= 2
    /\ \E i \in DOMAIN children :
          /\ children[i].pane = action.pane
          /\ draw(event.cursor)[i].translation # Zero

(***************************************************************************)
(* C20. With the same handlers for every event, the drag events published  *)
(* over any sequence of presses, moves and releases are well bracketed:    *)
(* a Dropped or Canceled of a pane p comes right after the Picked of p     *)
(* among the drag events, and after a Picked of p no other Picked is       *)
(* published before a Dropped or Canceled of p.                            *)
(***************************************************************************)
DragEvents ==
    { i \in DOMAIN published : published[i].type \in {"Picked", "Dropped", "Canceled"} }

\* A Dropped or a Canceled is published only right after the Picked of its
\* pane.
C20_DropAfterPick ==
    \A i \in DragEvents :
        published[i].type \in {"Dropped", "Canceled"}
            => before.dragging = published[i].pane

C20_AsClaimed ==
    /\ Cardinality(DragEvents) <= 1
    /\ \A i \in DragEvents :
          /\ published[i].type \in {"Dropped", "Canceled"}
                => before.dragging = published[i].pane
          /\ published[i].type = "Picked" => before.dragging = -1

(***************************************************************************)
(* C23. A press outside the bounds of the pane grid leaves the interaction *)
(* state as it was, publishes no PaneClicked, Picked or Resized and is not *)
(* Captured by the pane grid itself; a press inside the bounds is always   *)
(* Captured, whether or not it meets a split or a pane.                    *)
(***************************************************************************)
C23_PressOutsideIgnored ==
    Handled("Press") =>
        IF InsideBounds
        THEN own_status = "Captured"
        ELSE /\ action = before.action
             /\ published = << >>
             /\ own_status = "Ignored"

C23_Witness ==
    /\ Handled("Press")
    /\ ~InsideBounds
    /\ before.action.kind = "SplitPicked"
    /\ action = before.action

\* A press inside the bounds that meets no split and no pane.
C23_InsideMeetsNothing ==
    /\ PressInside
    /\ PanesUnder = {}
    /\ action = before.action
    /\ published = << >>
    /\ own_status = "Captured"

(***************************************************************************)
(* C24. Every event on_event handles, whatever the interaction state, is   *)
(* handed once to the content of every pane, after the transition of the   *)
(* pane grid itself, with is_picked true for at most one pane, the pane    *)
(* picked in the state after the transition; the status returned is the    *)
(* merge of the pane grid's own status with the statuses of the contents.  *)
(***************************************************************************)
C24_ForwardedToEveryContent ==
    event.kind # "None" =>
        /\ Len(forwarded) = Len(children)
        /\ \A i \in DOMAIN forwarded :
              /\ forwarded[i].pane = children[i].pane
              /\ forwarded[i].is_picked
                    <=> (action.kind = "PanePicked" /\ action.pane = forwarded[i].pane)
        /\ \A pane \in DOMAIN panes :
              Cardinality({ i \in DOMAIN forwarded : forwarded[i].pane = pane }) = 1
        /\ Cardinality({ i \in DOMAIN forwarded : forwarded[i].is_picked }) <= 1
        /\ status = IF own_status = "Captured" \/ ContentCaptured
                    THEN "Captured" ELSE "Ignored"

C24_Witness ==
    /\ Handled("Press")
    /\ before.action = Idle
    /\ action.kind = "PanePicked"
    /\ Len(forwarded) >= 2
    /\ \E i \in DOMAIN forwarded : forwarded[i].is_picked /\ forwarded[i].pane = action.pane

(***************************************************************************)
(* C22. In every state the layout can reach, the elements PaneGrid::new    *)
(* builds and the children layout gives are as many and in the same order: *)
(* every pane of the pane mapping has a region, none is passed over, so    *)
(* that pairing the elements with the children pairs each pane with its    *)
(* own rectangle.                                                          *)
(***************************************************************************)
\* The elements of a set of ids, in ascending order.
RECURSIVE Ascending(_)
Ascending(S) ==
    IF S = {} THEN << >> ELSE << Min(S) >> \o Ascending(S \ {Min(S)})

\* The orders PaneGrid::new may find the panes of the mapping in.
ElementOrders ==
    LET base == Ascending(DOMAIN panes)
    IN  { [ i \in DOMAIN base |-> perm[base[i]] ] : perm \in Permutations(DOMAIN panes) }

C22_ElementsPairWithChildren ==
    LET regions == compute_regions(layout, I(spacing),
                                   Rectangle(I(0), I(0), bounds.width, bounds.height))
    IN  \A elems \in ElementOrders :
            LET nodes == layout_nodes(elems, regions, bounds)
            IN  /\ Len(nodes) = Len(elems)
                /\ \A i \in DOMAIN nodes :
                      /\ nodes[i].pane = elems[i]
                      /\ \E j \in DOMAIN regions :
                            /\ regions[j].pane = elems[i]
                            /\ nodes[i].bounds
                                   = translate(regions[j].region, bounds.x, bounds.y)

C22_Witness ==
    /\ called.op = "close"
    /\ called.some
    /\ Len(panes_of(layout)) >= 2
    /\ panes_of(layout) # Ascending(DOMAIN panes)

(***************************************************************************)
(* C21. When the application changes the layout (split, close, swap,       *)
(* drag_and_drop_commit) between the events of a gesture, every event      *)
(* published after names only ids the layout holds when it is published:   *)
(* a Resized names a split of the tree, a Dropped or Canceled names a      *)
(* picked pane (and a target) of the tree; a picked pane or split that is  *)
(* no longer there gives no event.                                         *)
(***************************************************************************)
PanesNow == Range(panes_of(layout))

SplitsNow == Range(splits_of(layout))

\* A Resized names a split of the tree; a picked split that is gone gives
\* no event; the target of a Dropped is a pane of the tree.
C21_ResizedNamesSplit ==
    /\ \A i \in Emitted("Resized") : published[i].split \in SplitsNow
    /\ \A i \in Emitted("Dropped") : published[i].target \in PanesNow
    /\ (Handled("Move") /\ before.action.kind = "SplitPicked"
            /\ before.action.split \notin SplitsNow) => published = << >>

C21_AsClaimed ==
    /\ \A i \in Emitted("Resized") : published[i].split \in SplitsNow
    /\ \A i \in Emitted("Dropped") :
          published[i].pane \in PanesNow /\ published[i].target \in PanesNow
    /\ \A i \in Emitted("Canceled") : published[i].pane \in PanesNow
    /\ (Handled("Move") /\ before.action.kind = "SplitPicked"
            /\ before.action.split \notin SplitsNow) => published = << >>
    /\ (Handled("Release") /\ before.action.kind = "PanePicked"
            /\ before.action.pane \notin PanesNow) => published = << >>

\* A move with a picked split that is gone from the tree.
C21_SplitGone ==
    /\ Handled("Move")
    /\ before.action.kind = "SplitPicked"
    /\ before.action.split \notin SplitsNow
    /\ layout.kind = "Split"

====
